---- MODULE Spec2Model ----
(***************************************************************************)
(* A model of the core of OpenGov-EarlyMathematics: the curriculum         *)
(* catalog (core/curriculum.py), the adaptive learning-path engine         *)
(* (core/learning_path.py) and the problem engine (core/problem_engine.py).*)
(*                                                                         *)
(* Scores are Python floats.  They are modelled as IEEE-754 binary64       *)
(* values (53-bit significand, round to nearest, ties to even), held as a  *)
(* significand of base-2^14 limbs and a binary exponent, so that the       *)
(* comparisons against the thresholds 0.6, 0.8 and 0.95 and the blend      *)
(* 0.3*old + 0.7*observed give what the interpreter gives.                 *)
(***************************************************************************)
EXTENDS Integers, Sequences, FiniteSets, TLC

(***************************************************************************)
(* Unbounded naturals: little-endian sequences of limbs, no leading zero   *)
(* limb, <<>> is zero.  (Python's int and the exact value of a float's     *)
(* significand product do not fit TLC's 32-bit integers.)                  *)
(***************************************************************************)
Limb == 2 ^ 14

RECURSIVE BigNorm(_)
BigNorm(a) ==
    IF a = <<>> THEN <<>>
    ELSE IF a[Len(a)] = 0 THEN BigNorm(SubSeq(a, 1, Len(a) - 1))
    ELSE a

RECURSIVE BigFromNat(_)
BigFromNat(n) ==
    IF n = 0 THEN <<>> ELSE <<n % Limb>> \o BigFromNat(n \div Limb)

RECURSIVE BigToNat(_)
BigToNat(a) ==
    IF a = <<>> THEN 0 ELSE Head(a) + Limb * BigToNat(Tail(a))

RECURSIVE BigAddC(_, _, _)
BigAddC(a, b, c) ==
    IF a = <<>> /\ b = <<>> THEN (IF c = 0 THEN <<>> ELSE <<c>>)
    ELSE LET x == IF a = <<>> THEN 0 ELSE Head(a)
             y == IF b = <<>> THEN 0 ELSE Head(b)
             s == x + y + c
         IN  <<s % Limb>> \o BigAddC(IF a = <<>> THEN <<>> ELSE Tail(a),
                                     IF b = <<>> THEN <<>> ELSE Tail(b),
                                     s \div Limb)

BigAdd(a, b) == BigAddC(a, b, 0)

RECURSIVE BigMulLimb(_, _, _)
BigMulLimb(a, d, c) ==
    IF a = <<>> THEN (IF c = 0 THEN <<>> ELSE <<c>>)
    ELSE LET p == Head(a) * d + c
         IN  <<p % Limb>> \o BigMulLimb(Tail(a), d, p \div Limb)

RECURSIVE BigMul(_, _)
BigMul(a, b) ==
    IF a = <<>> \/ b = <<>> THEN <<>>
    ELSE BigNorm(BigAdd(BigMulLimb(a, Head(b), 0), <<0>> \o BigMul(a, Tail(b))))

RECURSIVE BigDivLimb(_, _, _)
\* Short division of a by d < Limb, most significant limb first; r is the
\* running remainder.  The result is <<quotient limbs (little-endian), remainder>>.
BigDivLimb(a, d, r) ==
    IF a = <<>> THEN <<<<>>, r>>
    ELSE LET cur  == r * Limb + a[Len(a)]
             rest == BigDivLimb(SubSeq(a, 1, Len(a) - 1), d, cur % d)
         IN  <<rest[1] \o <<cur \div d>>, rest[2]>>

BigLess(a, b) ==
    \/ Len(a) < Len(b)
    \/ /\ Len(a) = Len(b)
       /\ \E i \in 1..Len(a) :
            /\ a[i] < b[i]
            /\ \A j \in (i + 1)..Len(a) : a[j] = b[j]

RECURSIVE NatBitLen(_)
NatBitLen(n) == IF n = 0 THEN 0 ELSE 1 + NatBitLen(n \div 2)

LimbBits == NatBitLen(Limb) - 1

BitLen(a) == IF a = <<>> THEN 0 ELSE (Len(a) - 1) * LimbBits + NatBitLen(a[Len(a)])

ShiftLeft(a, n) ==
    IF a = <<>> THEN <<>>
    ELSE [i \in 1..(n \div LimbBits) |-> 0] \o BigMulLimb(a, 2 ^ (n % LimbBits), 0)

ShiftRight(a, n) ==
    IF n \div LimbBits >= Len(a) THEN <<>>
    ELSE BigNorm(BigDivLimb(SubSeq(a, (n \div LimbBits) + 1, Len(a)),
                            2 ^ (n % LimbBits), 0)[1])

BigBit(a, i) ==
    IF i \div LimbBits >= Len(a) THEN 0
    ELSE (a[(i \div LimbBits) + 1] \div (2 ^ (i % LimbBits))) % 2

\* Whether any of the bits 0..n-1 of a is set.
BigLowBits(a, n) ==
    \/ \E j \in 1..(n \div LimbBits) : j <= Len(a) /\ a[j] # 0
    \/ /\ n \div LimbBits < Len(a)
       /\ a[(n \div LimbBits) + 1] % (2 ^ (n % LimbBits)) # 0

\* a / 2^n rounded to the nearest integer, ties to even.
RoundShift(a, n) ==
    IF n = 0 THEN a
    ELSE LET q  == ShiftRight(a, n)
             up == /\ BigBit(a, n - 1) = 1
                   /\ (BigLowBits(a, n - 1) \/ BigBit(q, 0) = 1)
         IN  IF up THEN BigAdd(q, <<1>>) ELSE q

(***************************************************************************)
(* binary64 values >= 0: [m |-> significand, e |-> exponent], value m*2^e, *)
(* with m of exactly MantBits bits, or m = <<>> and e = 0 for 0.0.         *)
(***************************************************************************)
MantBits == 1 + 52

DZero == [m |-> <<>>, e |-> 0]

\* The double nearest to a * 2^e.
MkDouble(a, e) ==
    IF a = <<>> THEN DZero
    ELSE LET L == BitLen(a)
         IN  IF L <= MantBits
             THEN [m |-> ShiftLeft(a, MantBits - L), e |-> e - (MantBits - L)]
             ELSE LET q == RoundShift(a, L - MantBits)
                  IN  IF BitLen(q) > MantBits
                      THEN [m |-> ShiftRight(q, 1), e |-> e + (L - MantBits) + 1]
                      ELSE [m |-> q, e |-> e + (L - MantBits)]

DMul(x, y) == MkDouble(BigMul(x.m, y.m), x.e + y.e)

MinInt(i, j) == IF i < j THEN i ELSE j

\* The significand of x at the scale 2^e (e no larger than x.e).
Aligned(x, e) == ShiftLeft(x.m, x.e - e)

DAdd(x, y) ==
    IF x.m = <<>> THEN y
    ELSE IF y.m = <<>> THEN x
    ELSE LET e == MinInt(x.e, y.e)
         IN  MkDouble(BigAdd(Aligned(x, e), Aligned(y, e)), e)

\* x < y.  Both significands have MantBits bits, so the exponents decide
\* unless they are equal.
DLess(x, y) ==
    IF y.m = <<>> THEN FALSE
    ELSE IF x.m = <<>> THEN TRUE
    ELSE x.e < y.e \/ (x.e = y.e /\ BigLess(x.m, y.m))

DLeq(x, y) == ~DLess(y, x)

\* The float a decimal literal n/d denotes (d < Limb): the quotient is taken
\* to LitShift bits with a sticky bit for a non-zero remainder, then rounded.
LitShift == 6 * LimbBits

Lit(n, d) ==
    LET qr == BigDivLimb(ShiftLeft(BigFromNat(n), LitShift), d, 0)
        q  == BigNorm(qr[1])
        q2 == BigAdd(BigAdd(q, q), IF qr[2] = 0 THEN <<>> ELSE <<1>>)
    IN  MkDouble(q2, -(LitShift + 1))

\* format(x, ".2f") for 0 <= x: the number of hundredths nearest to x
\* (correctly rounded from the exact binary value, ties to even).
Format2f(x) ==
    IF x.m = <<>> THEN 0
    ELSE IF x.e >= 0 THEN BigToNat(ShiftLeft(BigMulLimb(x.m, 100, 0), x.e))
    ELSE BigToNat(RoundShift(BigMulLimb(x.m, 100, 0), -x.e))

(***************************************************************************)
(* core/models.py: the enumerations.                                       *)
(***************************************************************************)
GradeLevel == {"K", "1", "2", "3", "4", "5", "6", "7", "8", "9", "10", "11", "12"}

MathTopic ==
    {"counting", "number_recognition", "basic_addition", "basic_subtraction",
     "shapes", "patterns", "measurement", "time", "money",
     "multiplication", "division", "fractions", "decimals", "geometry",
     "data_graphs", "word_problems",
     "pre_algebra", "ratios", "proportions", "statistics", "probability",
     "coordinate_geometry", "algebraic_thinking",
     "algebra_1", "algebra_2", "geometry_advanced", "trigonometry",
     "pre_calculus", "calculus"}

(***************************************************************************)
(* core/curriculum.py: the catalog.                                        *)
(***************************************************************************)
topics_by_grade ==
    [g \in GradeLevel |->
        CASE g = "K"  -> <<"counting", "number_recognition", "shapes", "patterns">>
          [] g = "1"  -> <<"counting", "basic_addition", "basic_subtraction", "shapes",
                           "measurement">>
          [] g = "2"  -> <<"basic_addition", "basic_subtraction", "time", "money",
                           "measurement">>
          [] g = "3"  -> <<"multiplication", "division", "fractions", "geometry",
                           "word_problems">>
          [] g = "4"  -> <<"multiplication", "division", "fractions", "decimals",
                           "data_graphs">>
          [] g = "5"  -> <<"fractions", "decimals", "geometry", "data_graphs",
                           "word_problems">>
          [] g = "6"  -> <<"pre_algebra", "ratios", "proportions", "statistics",
                           "coordinate_geometry">>
          [] g = "7"  -> <<"pre_algebra", "proportions", "statistics", "probability",
                           "algebraic_thinking">>
          [] g = "8"  -> <<"algebra_1", "coordinate_geometry", "statistics",
                           "probability", "algebraic_thinking">>
          [] g = "9"  -> <<"algebra_1", "geometry_advanced">>
          [] g = "10" -> <<"algebra_2", "geometry_advanced">>
          [] g = "11" -> <<"algebra_2", "trigonometry", "pre_calculus">>
          [] g = "12" -> <<"pre_calculus", "calculus", "statistics">>]

get_topics_for_grade(grade) ==
    IF grade \in DOMAIN topics_by_grade THEN topics_by_grade[grade] ELSE <<>>

\* A Lesson, by the fields the engine reads.  advanced stands for
\* "advanced" in title.lower().
MkLesson(id, advanced, topic, grade, minutes) ==
    [id |-> id, advanced |-> advanced, topic |-> topic, grade_level |-> grade,
     duration_minutes |-> minutes]

\* Curriculum.lessons after _create_sample_content, in insertion order.
SampleContent ==
    <<MkLesson("lesson_mult_3_1", FALSE, "multiplication", "3", 30)>>

\* A larger content store (the store is loaded data: "in production, this
\* would load from a database or content repository").  adv1 is the lesson
\* tests/unit/test_learning_path_more.py puts in the catalog.
ExtendedContent ==
    SampleContent \o
    <<MkLesson("lesson_mult_3_2", FALSE, "multiplication", "3", 20),
      MkLesson("lesson_mult_4_1", FALSE, "multiplication", "4", 15),
      MkLesson("lesson_div_3_1", FALSE, "division", "3", 25),
      MkLesson("adv1", TRUE, "algebra_1", "8", 45),
      MkLesson("lesson_alg_9_1", FALSE, "algebra_1", "9", 40),
      MkLesson("lesson_alg_9_adv", TRUE, "algebra_1", "9", 50)>>

\* A store in which a topic has more than two lessons of one grade, two of
\* them of equal duration, and a grade has lessons of all three kinds.
FullContent ==
    ExtendedContent \o
    <<MkLesson("lesson_div_3_2", FALSE, "division", "3", 10),
      MkLesson("lesson_div_3_3", FALSE, "division", "3", 25),
      MkLesson("lesson_frac_3_1", FALSE, "fractions", "3", 20),
      MkLesson("lesson_frac_3_adv", TRUE, "fractions", "3", 35),
      MkLesson("lesson_geo_3_1", FALSE, "geometry", "3", 30)>>

Catalogs == {SampleContent, ExtendedContent, FullContent}

NoGrade == "None"

LessonsOfAnyGrade(store, topic, grade) ==
    SelectSeq(store, LAMBDA lesson : lesson.topic = topic)

\* Curriculum.get_lessons_for_topic over the store `store`.
RECURSIVE get_lessons_for_topic(_, _, _)
get_lessons_for_topic(store, topic, grade) ==
    IF store = <<>> THEN <<>>
    ELSE LET lesson == Head(store)
             rest   == get_lessons_for_topic(Tail(store), topic, grade)
         IN  IF lesson.topic = topic /\ (grade = NoGrade \/ lesson.grade_level = grade)
             THEN <<lesson>> \o rest
             ELSE rest

(***************************************************************************)
(* Python dicts, which keep insertion order: sequences of [k, v] entries   *)
(* with distinct keys.                                                     *)
(***************************************************************************)
DictKeys(d) == {d[i].k : i \in DOMAIN d}

DictGet(d, key, default) ==
    IF \E i \in DOMAIN d : d[i].k = key
    THEN d[CHOOSE i \in DOMAIN d : d[i].k = key].v
    ELSE default

DictSet(d, key, value) ==
    IF \E i \in DOMAIN d : d[i].k = key
    THEN [i \in DOMAIN d |-> IF d[i].k = key THEN [k |-> key, v |-> value] ELSE d[i]]
    ELSE Append(d, [k |-> key, v |-> value])

SeqRange(s) == {s[i] : i \in DOMAIN s}

TakeAll(s, n) == s

\* s[:n]
Take(s, n) == SubSeq(s, 1, MinInt(n, Len(s)))

\* list.insert(index, x) for index >= 0: past the end it appends.
ListInsertBefore(s, index, x) ==
    LET i == IF index = 0 THEN 0 ELSE MinInt(index - 1, Len(s))
    IN  SubSeq(s, 1, i) \o <<x>> \o SubSeq(s, i + 1, Len(s))

ListInsert(s, index, x) ==
    LET i == MinInt(index, Len(s))
    IN  SubSeq(s, 1, i) \o <<x>> \o SubSeq(s, i + 1, Len(s))

(***************************************************************************)
(* config.py and the float literals of core/learning_path.py.              *)
(***************************************************************************)
min_accuracy_for_advancement == Lit(8, 10)

StrengthScore == Lit(8, 10)

WeaknessScore == Lit(6, 10)

ExcellingScore == Lit(95, 100)

OldWeight == Lit(3, 10)

NewWeight == Lit(7, 10)

(***************************************************************************)
(* core/learning_path.py                                                   *)
(***************************************************************************)
IsStrengthStrict(score) == DLess(StrengthScore, score)

\* score >= 0.8
IsStrength(score) == DLeq(StrengthScore, score)

\* score < 0.6
IsWeakness(score) == DLess(score, WeaknessScore)

\* _analyze_assessment: <<strengths, weaknesses>>.
RECURSIVE _analyze_assessment(_)
_analyze_assessment(results) ==
    IF results = <<>> THEN <<  <<>>, <<>>  >>
    ELSE LET n     == Len(results)
             prev  == _analyze_assessment(SubSeq(results, 1, n - 1))
             topic == results[n].k
             score == results[n].v
         IN  IF topic \notin MathTopic THEN prev
             ELSE IF IsStrength(score) THEN <<Append(prev[1], topic), prev[2]>>
             ELSE IF IsWeakness(score) THEN <<prev[1], Append(prev[2], topic)>>
             ELSE prev

StoreOrder(ls) == ls

\* list.sort(key=lambda l: l.duration_minutes): stable, ascending.
RECURSIVE SortByDuration(_)
SortByDuration(ls) ==
    IF ls = <<>> THEN <<>>
    ELSE LET n      == Len(ls)
             sorted == SortByDuration(SubSeq(ls, 1, n - 1))
             x      == ls[n]
             pos    == Cardinality({i \in DOMAIN sorted :
                                      sorted[i].duration_minutes <= x.duration_minutes})
         IN  SubSeq(sorted, 1, pos) \o <<x>> \o SubSeq(sorted, pos + 1, Len(sorted))

TopicsOf(ls) == [i \in DOMAIN ls |-> ls[i].topic]

Ids(ls) == [i \in DOMAIN ls |-> ls[i].id]

RECURSIVE WeaknessLessons(_, _, _)
WeaknessLessons(store, grade, weaknesses) ==
    IF weaknesses = <<>> THEN <<>>
    ELSE Ids(Take(SortByDuration(get_lessons_for_topic(store, Head(weaknesses), grade)), 2))
         \o WeaknessLessons(store, grade, Tail(weaknesses))

RECURSIVE RegularLessons(_, _, _, _, _)
RegularLessons(store, grade, topics, strengths, weaknesses) ==
    IF topics = <<>> THEN <<>>
    ELSE LET topic == Head(topics)
             found == get_lessons_for_topic(store, topic, grade)
             rest  == RegularLessons(store, grade, Tail(topics), strengths, weaknesses)
         IN  IF topic \notin SeqRange(weaknesses) /\ topic \notin SeqRange(strengths)
                /\ found # <<>>
             THEN <<found[1].id>> \o rest
             ELSE rest

RECURSIVE StrengthLessons(_, _, _)
StrengthLessons(store, grade, strengths) ==
    IF strengths = <<>> THEN <<>>
    ELSE LET found    == get_lessons_for_topic(store, Head(strengths), grade)
             advanced == SelectSeq(found, LAMBDA l : l.advanced)
             rest     == StrengthLessons(store, grade, Tail(strengths))
         IN  IF advanced # <<>> THEN <<advanced[1].id>> \o rest ELSE rest

_generate_lesson_sequence(store, grade, topics, strengths, weaknesses) ==
    WeaknessLessons(store, grade, weaknesses)
    \o RegularLessons(store, grade, topics, strengths, weaknesses)
    \o StrengthLessons(store, grade, strengths)

BlendSwapped(current_score, score) ==
    DAdd(DMul(NewWeight, current_score), DMul(OldWeight, score))

BlendUnweighted(current_score, score) ==
    DAdd(current_score, DMul(NewWeight, score))

\* The mastery blend of update_path: 0.3 * current_score + 0.7 * score.
Blend(current_score, score) ==
    DAdd(DMul(OldWeight, current_score), DMul(NewWeight, score))

RECURSIVE UpdateMasteryAnyKey(_, _)
UpdateMasteryAnyKey(mastery, performance_data) ==
    IF performance_data = <<>> THEN mastery
    ELSE LET topic == Head(performance_data).k
             score == Head(performance_data).v
         IN  UpdateMasteryAnyKey(
                 DictSet(mastery, topic, Blend(DictGet(mastery, topic, DZero), score)),
                 Tail(performance_data))

\* The mastery update loop of update_path; a key that is no topic is skipped.
RECURSIVE UpdateMastery(_, _)
UpdateMastery(mastery, performance_data) ==
    IF performance_data = <<>> THEN mastery
    ELSE LET topic == Head(performance_data).k
             score == Head(performance_data).v
             next  == IF topic \in MathTopic
                      THEN DictSet(mastery, topic,
                                   Blend(DictGet(mastery, topic, DZero), score))
                      ELSE mastery
         IN  UpdateMastery(next, Tail(performance_data))

\* struggling_topics: the topics of mastery, in dict order, below the threshold.
StrugglingOrEqual(mastery) ==
    LET low == SelectSeq(mastery, LAMBDA en : DLeq(en.v, min_accuracy_for_advancement))
    IN  [i \in DOMAIN low |-> low[i].k]

StrugglingTopics(mastery) ==
    LET low == SelectSeq(mastery, LAMBDA en : DLess(en.v, min_accuracy_for_advancement))
    IN  [i \in DOMAIN low |-> low[i].k]

LogFront(adjustments, entry) == <<entry>> \o adjustments

\* path.adaptive_adjustments.append(entry)
Log(adjustments, entry) == Append(adjustments, entry)

RemedialEntry(topic, score) ==
    [action |-> "added_remedial", topic |-> topic,
     reason |-> <<"mastery_score_", Format2f(score)>>]

AcceleratedEntry ==
    [action |-> "accelerated_path", reason |-> <<"high_mastery_scores">>]

\* The remedial loop of update_path over `topics`: st is [lessons, adjustments].
RECURSIVE AddRemedial(_, _, _, _, _)
AddRemedial(store, mastery, at, topics, st) ==
    IF topics = <<>> THEN st
    ELSE LET topic    == Head(topics)
             remedial == get_lessons_for_topic(store, topic, NoGrade)
             next     == IF remedial # <<>>
                         THEN [lessons     |-> ListInsert(st.lessons, at, remedial[1].id),
                               adjustments |-> Log(st.adjustments,
                                    RemedialEntry(topic, DictGet(mastery, topic, DZero)))]
                         ELSE st
         IN  AddRemedial(store, mastery, at, Tail(topics), next)

ExcellingOrEqual(mastery) ==
    LET excelling_topics == SelectSeq(mastery, LAMBDA en : DLeq(ExcellingScore, en.v))
    IN  2 * Len(excelling_topics) > Len(mastery)

Excelling(mastery) ==
    LET excelling_topics == SelectSeq(mastery, LAMBDA en : DLess(ExcellingScore, en.v))
    IN  2 * Len(excelling_topics) > Len(mastery)

\* get_next_lesson's result; None is the string "None".
None == "None"

NextLessonSkipsLast(ls, cur) == IF cur + 1 < Len(ls) THEN ls[cur + 1] ELSE None

NextLessonOf(ls, cur) == IF cur < Len(ls) THEN ls[cur + 1] ELSE None

(***************************************************************************)
(* core/problem_engine.py.  Text is a sequence of one-character strings.   *)
(***************************************************************************)
Digits == <<"0", "1", "2", "3", "4", "5", "6", "7", "8", "9">>

RECURSIVE NatStr(_)
NatStr(n) == IF n < 10 THEN <<Digits[n + 1]>> ELSE NatStr(n \div 10) \o <<Digits[(n % 10) + 1]>>

\* str(n) for an int n.
IntStr(n) == IF n < 0 THEN <<"-">> \o NatStr(-n) ELSE NatStr(n)

\* str(x) for a float x with the integral value n: "n.0".
IntegralFloatStr(n) == IntStr(n) \o <<".", "0">>

\* f"{p}/{q}"
FractionStr(p, q) == IntStr(p) \o <<"/">> \o IntStr(q)

NoGcd(a, b) == 1

\* math.gcd
RECURSIVE gcd(_, _)
gcd(a, b) == IF b = 0 THEN a ELSE gcd(b, a % b)

\* The list indexed in generate_problem, and DifficultyLevel's values.
DifficultyLevel == <<"beginner", "intermediate", "advanced", "expert">>

\* random.randint(lo, hi), sampled: the spread lowest and the spread highest
\* values of lo..hi.
Sample(lo, hi, spread) == {x \in lo..hi : x < lo + spread \/ x > hi - spread}

Spread == 3

RandInt(lo, hi) == Sample(lo, hi, Spread)

IdSpread == 1

\* random.randint(1000, 9999) of the problem ids.
IdSuffix == Sample(1000, 9999, IdSpread)

MaxInt(i, j) == IF i < j THEN j ELSE i

ProblemData(question, answer, solution_steps, hints) ==
    [question |-> question, answer |-> answer, solution_steps |-> solution_steps,
     hints |-> hints]

NoHints(h1, h2, h3) == <<>>

\* The three hints every synthesizer gives, by the values they mention.
Hints(h1, h2, h3) == <<h1, h2, h3>>

AdditionData(a, b) ==
    ProblemData([form |-> "a + b", a |-> a, b |-> b], IntStr(a + b),
                <<<<a, b>>, <<a>>, <<b>>, <<a, b, IntStr(a + b)>>>>,
                Hints(<<>>, <<>>, <<a, b>>))

_generate_addition(difficulty) ==
    LET range == CASE difficulty = "beginner"     -> <<1, 10>>
                   [] difficulty = "intermediate" -> <<10, 50>>
                   [] difficulty = "advanced"     -> <<50, 100>>
                   [] OTHER                       -> <<100, 1000>>
    IN  {AdditionData(a, b) : a \in RandInt(range[1], range[2]),
                              b \in RandInt(range[1], range[2])}

SubtractionData(a, b) ==
    ProblemData([form |-> "a - b", a |-> a, b |-> b], IntStr(a - b),
                <<<<b, a>>, <<a>>, <<b>>, <<a, b, IntStr(a - b)>>>>,
                Hints(<<>>, <<a, b>>, <<>>))

SubtractionUnordered(difficulty) ==
    {SubtractionData(a, b) : a \in RandInt(5, 20), b \in RandInt(1, 10)}

_generate_subtraction(difficulty) ==
    LET ranges == CASE difficulty = "beginner"     -> <<5, 20, 1, 10>>
                    [] difficulty = "intermediate" -> <<20, 100, 10, 50>>
                    [] OTHER                       -> <<100, 1000, 50, 500>>
    IN  {SubtractionData(MaxInt(a, b), MinInt(a, b)) :
            a \in RandInt(ranges[1], ranges[2]), b \in RandInt(ranges[3], ranges[4])}

MultiplicationData(a, b) ==
    ProblemData([form |-> "a * b", a |-> a, b |-> b], IntStr(a * b),
                <<<<a, b>>, <<a, b>>, <<b, a>>, <<a, b, IntStr(a * b)>>>>,
                Hints(<<a, b>>, <<b, b, a>>, <<>>))

_generate_multiplication(difficulty) ==
    LET range == CASE difficulty = "beginner"     -> <<1, 5>>
                   [] difficulty = "intermediate" -> <<2, 10>>
                   [] OTHER                       -> <<5, 20>>
    IN  {MultiplicationData(a, b) : a \in RandInt(range[1], range[2]),
                                    b \in RandInt(range[1], range[2])}

DivisionData(a, b) ==
    ProblemData([form |-> "a / b", a |-> a, b |-> b], IntStr(a \div b),
                <<<<a, b>>, <<b, a>>, <<a, b>>, <<a, b, IntStr(a \div b)>>>>,
                Hints(<<b, a>>, <<>>, <<b, a>>))

DivisionAnyDividend(difficulty) ==
    {DivisionData(a, b) : a \in RandInt(5, 20), b \in RandInt(1, 5)}

_generate_division(difficulty) ==
    LET range == CASE difficulty = "beginner"     -> <<1, 5>>
                   [] difficulty = "intermediate" -> <<2, 10>>
                   [] OTHER                       -> <<5, 20>>
    IN  {DivisionData(b * k, b) : b \in RandInt(range[1], range[2]),
                                  k \in RandInt(range[1], range[2])}

FractionSteps(answer) == <<<<>>, <<>>, <<>>, <<answer>>>>

SimplifyData(numerator, denominator) ==
    LET g      == gcd(numerator, denominator)
        answer == FractionStr(numerator \div g, denominator \div g)
    IN  ProblemData([form |-> "simplify n/d", n |-> numerator, d |-> denominator],
                    answer, FractionSteps(answer), Hints(<<>>, <<>>, <<>>))

FractionSumData(n1, d1, n2, d2) ==
    LET lcm     == (d1 * d2) \div gcd(d1, d2)
        sum_num == ((n1 * lcm) \div d1) + ((n2 * lcm) \div d2)
        g       == gcd(sum_num, lcm)
        answer  == FractionStr(sum_num \div g, lcm \div g)
    IN  ProblemData([form |-> "n1/d1 + n2/d2", n1 |-> n1, d1 |-> d1, n2 |-> n2,
                     d2 |-> d2],
                    answer, FractionSteps(answer), Hints(<<>>, <<>>, <<>>))

_generate_fractions(difficulty) ==
    IF difficulty = "beginner"
    THEN {SimplifyData(numerator, denominator) :
             numerator \in RandInt(1, 5), denominator \in RandInt(2, 10)}
    ELSE {FractionSumData(n1, d1, n2, d2) :
             n1 \in RandInt(1, 5), d1 \in RandInt(2, 8),
             n2 \in RandInt(1, 5), d2 \in RandInt(2, 8)}

LinearData(a, b) ==
    LET answer == IntStr(b - a)
    IN  ProblemData([form |-> "x + a = b", a |-> a, b |-> b], answer,
                    <<<<a, b>>, <<a>>, <<b, a>>, <<answer>>>>,
                    Hints(<<>>, <<>>, <<>>))

\* str(b / a if b % a == 0 else f"{b}/{a}"): b / a is a float.
QuotientStr(a, b) ==
    IF b % a = 0 THEN IntegralFloatStr(b \div a) ELSE FractionStr(b, a)

ScaledData(a, b) ==
    LET answer == QuotientStr(a, b)
    IN  ProblemData([form |-> "a x = b", a |-> a, b |-> b], answer,
                    <<<<a, b>>, <<a>>, <<b, a>>, <<answer>>>>,
                    Hints(<<>>, <<>>, <<>>))

_generate_algebra(difficulty) ==
    IF difficulty = "beginner"
    THEN {LinearData(a, b) : a \in RandInt(1, 10), b \in RandInt(1, 20)}
    ELSE {ScaledData(a, b) : a \in RandInt(2, 10), b \in RandInt(10, 50)}

DefaultSubtraction(difficulty) == _generate_subtraction(difficulty)

_generate_default(difficulty) == _generate_addition(difficulty)

\* self.generators.get(topic, self._generate_default)(difficulty): the
\* problem data the call may return.
Generate(topic, difficulty) ==
    CASE topic = "basic_addition"    -> _generate_addition(difficulty)
      [] topic = "basic_subtraction" -> _generate_subtraction(difficulty)
      [] topic = "multiplication"    -> _generate_multiplication(difficulty)
      [] topic = "division"          -> _generate_division(difficulty)
      [] topic = "fractions"         -> _generate_fractions(difficulty)
      [] topic = "algebra_1"         -> _generate_algebra(difficulty)
      [] OTHER                       -> _generate_default(difficulty)

Problem(id, topic, grade, difficulty, data) ==
    [id |-> id, topic |-> topic, grade_level |-> grade, difficulty |-> difficulty,
     question |-> data.question, answer |-> data.answer,
     solution_steps |-> data.solution_steps, hints |-> data.hints]

Whitespace == {" ", "\t", "\n"}

\* str.strip()
RECURSIVE Strip(_)
Strip(text) ==
    IF text = <<>> THEN text
    ELSE IF Head(text) \in Whitespace THEN Strip(Tail(text))
    ELSE IF text[Len(text)] \in Whitespace THEN Strip(SubSeq(text, 1, Len(text) - 1))
    ELSE text

IsDigits(text) == text # <<>> /\ \A i \in DOMAIN text : text[i] \in SeqRange(Digits)

\* re.match(r"^-?\d+(/\d+)?$", text) for text over ASCII: $ also matches
\* before a final newline.
RegexMatch(text) ==
    LET body   == IF text # <<>> /\ text[Len(text)] = "\n"
                  THEN SubSeq(text, 1, Len(text) - 1) ELSE text
        digits == IF body # <<>> /\ Head(body) = "-" THEN Tail(body) ELSE body
        slash  == {i \in DOMAIN digits : digits[i] = "/"}
    IN  \/ IsDigits(digits)
        \/ \E i \in slash : /\ IsDigits(SubSeq(digits, 1, i - 1))
                            /\ IsDigits(SubSeq(digits, i + 1, Len(digits)))

IsCorrectUntrimmed(student_answer) == RegexMatch(student_answer)

\* is_correct of check_solution.
IsCorrect(student_answer) == RegexMatch(Strip(student_answer))

\* check_solution's result.
Feedback(student_answer, show_steps) ==
    LET is_correct == IsCorrect(student_answer)
        feedback   == [correct  |-> is_correct,
                       feedback |-> IF is_correct THEN "Great job! That's correct!"
                                    ELSE "Not quite. Try again! You can do it!"]
    IN  IF show_steps /\ ~is_correct
        THEN [correct   |-> feedback.correct,
              feedback  |-> feedback.feedback,
              hint      |-> "Remember to check your work step by step",
              next_step |-> "Try breaking down the problem into smaller parts"]
        ELSE feedback

(***************************************************************************)
(* Inputs.                                                                 *)
(***************************************************************************)
\* Scores are written as hundredths n, for the literal n/100; Hundredths[n]
\* is the float the literal denotes.
Hundredths == [n \in 0..100 |-> Lit(n, 100)]

Entry(key, n) == [k |-> key, v |-> n]

\* Keys of assessment_results and performance_data that are topics: one of
\* grade 3 (and 4), one of grade 9 (and 8).
TopicKeys == {"multiplication", "algebra_1"}

\* The scores around the classification thresholds 0.6 and 0.8, and 1.0.
AssessmentScores == {40, 60, 79, 80, 100}

\* The assessments of the tests and of the specification's scenarios.
TestAssessments ==
    {<<Entry("multiplication", 40), Entry("division", 55), Entry("fractions", 95)>>,
     <<Entry("multiplication", 90), Entry("division", 50), Entry("fractions", 70)>>,
     <<Entry("multiplication", 75), Entry("division", 60)>>,
     <<Entry("algebra_1", 90), Entry("unknown_topic", 10)>>}

\* An assessment with more than three weaknesses, among them a key that is
\* no topic, a strength and a score of exactly 0.6.
LongAssessment ==
    <<Entry("multiplication", 40), Entry("unknown_topic", 10), Entry("division", 80),
      Entry("fractions", 59), Entry("basic_addition", 60), Entry("counting", 0),
      Entry("geometry", 30)>>

\* Assessments of grade 9 that score both of its topics: both above 0.95,
\* and one at exactly 0.95.
HighAssessments ==
    {<<Entry("algebra_1", 100), Entry("geometry_advanced", 100)>>,
     <<Entry("algebra_1", 95), Entry("geometry_advanced", 100)>>}

Assessments ==
    {<<>>}
    \cup {<<Entry(key, n)>> : key \in TopicKeys, n \in AssessmentScores}
    \cup TestAssessments
    \cup {LongAssessment}
    \cup HighAssessments

PerformanceScores == {0, 80, 100}

\* performance_data: empty, one entry, and the data of the tests.
Performances ==
    {<<>>}
    \cup {<<Entry(key, n)>> : key \in TopicKeys, n \in PerformanceScores}
    \cup {<<Entry("multiplication", 30), Entry("division", 50)>>,
          <<Entry("not_a_topic", 10)>>,
          <<Entry("not_a_topic", 10), Entry("multiplication", 80)>>}

\* The performance of a completed lesson: around the threshold 0.8.
LessonPerformances == {79, 80, 100}

GradeInputs == {3, 9}

MaxCalls == 2

\* generate_problem's arguments: the topics with a synthesizer, two without,
\* and a string that is no topic; difficulty levels in and around 1..4;
\* two grades and two ints that are no grade.
TopicInputs ==
    {"basic_addition", "basic_subtraction", "multiplication", "division",
     "fractions", "algebra_1", "counting", "geometry", "not_a_topic"}

DifficultyLevelInputs == 0..5

StudentLevelInputs == {0, 3, 12, 13}

MaxProblems == 2

Text(string) ==
    CASE string = "42"           -> <<"4", "2">>
      [] string = "3/4"          -> <<"3", "/", "4">>
      [] string = "-5"           -> <<"-", "5">>
      [] string = " 7 "          -> <<" ", "7", " ">>
      [] string = "invalid"      -> <<"i", "n", "v", "a", "l", "i", "d">>
      [] string = "5.0"          -> <<"5", ".", "0">>
      [] string = "not-a-number" -> <<"n", "o", "t", "-", "a", "-", "n", "u", "m", "b",
                                      "e", "r">>
      [] string = "-1/2"         -> <<"-", "1", "/", "2">>
      [] string = "1/"           -> <<"1", "/">>
      [] string = "1/2/3"        -> <<"1", "/", "2", "/", "3">>
      [] string = "4 2"          -> <<"4", " ", "2">>
      [] string = "-"            -> <<"-">>
      [] string = ""             -> <<>>

\* Answers of the tests, and answers that are no int and no fraction.
AnswerInputs ==
    {Text("42"), Text("3/4"), Text("-5"), Text(" 7 "), Text("invalid"), Text("5.0"),
     Text("not-a-number"), Text("-1/2"), Text("1/"), Text("1/2/3"), Text("4 2"),
     Text("-"), Text("")}

\* The dict of floats a dict of literals denotes.
Floats(d) == [i \in DOMAIN d |-> [k |-> d[i].k, v |-> Hundredths[d[i].v]]]

(***************************************************************************)
(* State: the content store, one learning path, and the last call made on  *)
(* the generator with its arguments and result.                            *)
(***************************************************************************)
VARIABLES
    catalog,               \* Curriculum.lessons
    phase,                 \* "start" before create_path, "path" after
    grade_level,           \* the grade create_path was called with
    lessons,               \* LearningPath.lessons
    current_lesson,        \* LearningPath.current_lesson
    progress,              \* LearningPath.progress
    mastery_scores,        \* LearningPath.mastery_scores
    recommended_topics,    \* LearningPath.recommended_topics
    adaptive_adjustments,  \* LearningPath.adaptive_adjustments
    calls,                 \* number of update_path and complete_lesson calls
    call,                  \* the last call: its name, arguments and result
    produced,              \* the last generate_problem or generate_practice_set
                           \* call and what it returned or raised
    checked,               \* the last check_solution call and its result
    now,                   \* the last reading of the clock (datetime.utcnow())
    created                \* the create_path calls so far: student, clock
                           \* reading and the id of the path returned

pathVars ==
    <<lessons, current_lesson, progress, mastery_scores, recommended_topics,
      adaptive_adjustments>>

engineVars == <<produced, checked>>

idVars == <<now, created>>

vars == <<catalog, phase, grade_level, pathVars, calls, call, engineVars, idVars>>

Init ==
    /\ catalog \in Catalogs
    /\ phase = "start"
    /\ grade_level = 0
    /\ lessons = <<>>
    /\ current_lesson = 0
    /\ progress = <<>>
    /\ mastery_scores = <<>>
    /\ recommended_topics = <<>>
    /\ adaptive_adjustments = <<>>
    /\ calls = 0
    /\ call = [op |-> "init"]
    /\ produced = [op |-> "init", raised |-> None, count |-> 0]
    /\ checked = [op |-> "init"]
    /\ now = 0
    /\ created = <<>>

\* f"path_{student_id}_{datetime.utcnow().timestamp()}", for a clock reading
\* in whole seconds.
PathId(student_id, reading) ==
    <<"p", "a", "t", "h", "_">> \o student_id \o <<"_">> \o IntegralFloatStr(reading)

MaxPaths == 2

\* create_path for a student, when the clock reads `reading`.
CreatePathFor(student_id, grade, assessment, reading) ==
    LET assessment_results == Floats(assessment)
        analysis   == _analyze_assessment(assessment_results)
        strengths  == analysis[1]
        weaknesses == analysis[2]
        g          == ToString(grade)
        topics     == get_topics_for_grade(g)
    IN  /\ Len(created) < MaxPaths
        /\ g \in GradeLevel
        /\ phase' = "path"
        /\ grade_level' = grade
        /\ lessons' = _generate_lesson_sequence(catalog, g, topics, strengths, weaknesses)
        /\ current_lesson' = 0
        /\ progress' = <<>>
        /\ mastery_scores' =
               [i \in DOMAIN topics |->
                   [k |-> topics[i], v |-> DictGet(assessment_results, topics[i], DZero)]]
        /\ recommended_topics' = Take(weaknesses, 3)
        /\ adaptive_adjustments' = <<>>
        /\ now' = reading
        /\ created' = Append(created, [student_id |-> student_id, reading |-> reading,
                                       id |-> PathId(student_id, reading)])
        /\ call' = [op |-> "create_path", assessment |-> assessment,
                    strengths |-> strengths, weaknesses |-> weaknesses]
        /\ UNCHANGED <<catalog, calls, engineVars>>

\* The one path of Spec: one student, the clock one tick on.
CreatePath(grade, assessment) ==
    /\ phase = "start"
    /\ CreatePathFor(<<"s">>, grade, assessment, now + 1)

\* update_path; mastery is the dict after the blending loop, st the lessons
\* and adjustments after the remedial loop.
UpdatePath(performance) ==
    /\ phase = "path"
    /\ calls < MaxCalls
    /\ calls' = calls + 1
    /\ \E mastery \in {UpdateMastery(mastery_scores, Floats(performance))} :
          \E st \in {AddRemedial(catalog, mastery, current_lesson + 1,
                                 Take(StrugglingTopics(mastery), 2),
                                 [lessons |-> lessons,
                                  adjustments |-> adaptive_adjustments])} :
             /\ mastery_scores' = mastery
             /\ lessons' = st.lessons
             /\ adaptive_adjustments' =
                    IF Excelling(mastery) THEN Log(st.adjustments, AcceleratedEntry)
                    ELSE st.adjustments
    /\ call' = [op |-> "update_path", performance_data |-> performance]
    /\ UNCHANGED <<catalog, phase, grade_level, current_lesson, progress,
                   recommended_topics, engineVars, idVars>>

GetNextLesson ==
    /\ phase = "path"
    /\ call' = [op |-> "get_next_lesson", result |-> NextLessonOf(lessons, current_lesson)]
    /\ UNCHANGED <<catalog, phase, grade_level, pathVars, calls, engineVars, idVars>>

AdvancesStrict(performance) == DLess(min_accuracy_for_advancement, performance)

\* performance >= settings.min_accuracy_for_advancement
Advances(performance) == DLeq(min_accuracy_for_advancement, performance)

CompleteLessonAnyId(lesson_id, performance) ==
    /\ phase = "path"
    /\ calls < MaxCalls
    /\ calls' = calls + 1
    /\ progress' = DictSet(progress, lesson_id, Hundredths[performance])
    /\ current_lesson' =
           IF Advances(Hundredths[performance]) THEN current_lesson + 1
           ELSE current_lesson
    /\ call' = [op |-> "complete_lesson", lesson_id |-> lesson_id,
                performance |-> performance]
    /\ UNCHANGED <<catalog, phase, grade_level, lessons, mastery_scores,
                   recommended_topics, adaptive_adjustments, engineVars, idVars>>

\* The body of complete_lesson: what it does to the path.
CompleteLessonOn(lesson_id, performance) ==
    /\ IF lesson_id \in SeqRange(lessons)
       THEN /\ progress' = DictSet(progress, lesson_id, Hundredths[performance])
            /\ current_lesson' =
                   IF Advances(Hundredths[performance]) THEN current_lesson + 1
                   ELSE current_lesson
       ELSE UNCHANGED <<progress, current_lesson>>
    /\ UNCHANGED <<lessons, mastery_scores, recommended_topics, adaptive_adjustments>>

CompleteLesson(lesson_id, performance) ==
    /\ phase = "path"
    /\ calls < MaxCalls
    /\ calls' = calls + 1
    /\ CompleteLessonOn(lesson_id, performance)
    /\ call' = [op |-> "complete_lesson", lesson_id |-> lesson_id,
                performance |-> performance]
    /\ UNCHANGED <<catalog, phase, grade_level, engineVars, idVars>>

\* Lesson ids a caller may pass: those of the path and one that is not in it.
LessonIdInputs == SeqRange(lessons) \cup {"no_such_lesson"}

Next ==
    \/ \E grade \in GradeInputs, assessment \in Assessments : CreatePath(grade, assessment)
    \/ \E performance \in Performances : UpdatePath(performance)
    \/ GetNextLesson
    \/ \E lesson_id \in LessonIdInputs, performance \in LessonPerformances :
          CompleteLesson(lesson_id, performance)

Spec == Init /\ [][Next]_vars

(***************************************************************************)
(* Several create_path calls on one generator.  The clock is read at each  *)
(* call and does not run backwards; two readings may be equal.             *)
(***************************************************************************)
MaxClock == 2

StudentIdInputs == {<<"s">>, <<"s", "_", "5">>}

NextIds ==
    \E student_id \in StudentIdInputs, grade \in GradeInputs,
       assessment \in Assessments, reading \in now..MaxClock :
       CreatePathFor(student_id, grade, assessment, reading)

SpecIds == Init /\ [][NextIds]_vars

(***************************************************************************)
(* A caller that, from some point on, only completes the lesson            *)
(* get_next_lesson returns, each time with a performance that advances.    *)
(***************************************************************************)
\* Performances at and above settings.min_accuracy_for_advancement.
DrivePerformances == {80, 100}

\* The caller starts on a path whose position is within its lessons.
BeginDrive ==
    /\ phase = "path"
    /\ current_lesson <= Len(lessons)
    /\ phase' = "driving"
    /\ call' = [op |-> "drive", remaining |-> Len(lessons) - current_lesson,
                completions |-> 0]
    /\ UNCHANGED <<catalog, grade_level, pathVars, calls, engineVars, idVars>>

\* complete_lesson(path, get_next_lesson(path), performance)
Drive(performance) ==
    /\ phase = "driving"
    /\ \E lesson_id \in {NextLessonOf(lessons, current_lesson)} :
          /\ lesson_id # None
          /\ CompleteLessonOn(lesson_id, performance)
    /\ call' = [call EXCEPT !.completions = @ + 1]
    /\ UNCHANGED <<catalog, phase, grade_level, calls, engineVars, idVars>>

DriveNext == \E performance \in DrivePerformances : Drive(performance)

NextProgress ==
    \/ Next
    \/ BeginDrive
    \/ DriveNext

\* The caller keeps going: a completion that stays possible is made.
SpecProgress == Init /\ [][NextProgress]_vars /\ WF_vars(DriveNext)

(***************************************************************************)
(* The curriculum's lesson query, called on its own.                       *)
(***************************************************************************)
GetLessonsForTopic(topic, grade) ==
    /\ call' = [op |-> "get_lessons_for_topic", topic |-> topic, grade |-> grade,
                result |-> get_lessons_for_topic(catalog, topic, grade)]
    /\ UNCHANGED <<catalog, phase, grade_level, pathVars, calls, engineVars, idVars>>

NextCurriculum ==
    \E topic \in MathTopic, grade \in GradeLevel \cup {NoGrade} :
       GetLessonsForTopic(topic, grade)

SpecCurriculum == Init /\ [][NextCurriculum]_vars

(***************************************************************************)
(* The problem engine: MathProblemSolver's three operations.               *)
(***************************************************************************)
pathState == <<catalog, phase, grade_level, pathVars, calls, call, idVars>>

\* A list index as Python resolves it: negative indices count from the end.
ListIndex(list, index) ==
    IF 0 <= index /\ index < Len(list) THEN index + 1
    ELSE IF -Len(list) <= index /\ index < 0 THEN Len(list) + index + 1
    ELSE 0

\* The solver keeps no state between calls: a behaviour is one call that
\* produces and then one check_solution call, or one check_solution call.
GenerateProblem(topic, difficulty_level, student_level) ==
    LET index == ListIndex(DifficultyLevel, difficulty_level - 1)
        op    == "generate_problem"
        args  == [topic |-> topic, difficulty_level |-> difficulty_level,
                  student_level |-> student_level]
    IN  /\ produced.op = "init"
        /\ checked.op = "init"
        /\ IF topic \notin MathTopic
           THEN produced' = [op |-> op, args |-> args, raised |-> "ValueError", count |-> 0]
           ELSE IF index = 0
           THEN produced' = [op |-> op, args |-> args, raised |-> "IndexError", count |-> 0]
           ELSE IF ToString(student_level) \notin GradeLevel
           THEN produced' = [op |-> op, args |-> args, raised |-> "ValueError", count |-> 0]
           ELSE \E data \in Generate(topic, DifficultyLevel[index]),
                   n \in IdSuffix :
                   produced' =
                       [op |-> op, args |-> args, raised |-> None, count |-> 1,
                        problem |-> Problem(<<"prob", topic, n>>, topic,
                                            ToString(student_level),
                                            DifficultyLevel[index], data)]
        /\ UNCHANGED <<pathState, checked>>

\* generate_practice_set: the list is held as its length and one of its
\* elements (each element is an independent draw of the same synthesizer).
GeneratePracticeSet(topic, num_problems, difficulty) ==
    LET op   == "generate_practice_set"
        args == [topic |-> topic, num_problems |-> num_problems,
                 difficulty |-> difficulty]
    IN  /\ produced.op = "init"
        /\ checked.op = "init"
        /\ IF num_problems <= 0
           THEN produced' = [op |-> op, args |-> args, raised |-> None, count |-> 0]
           ELSE \E data \in Generate(topic, difficulty), n \in IdSuffix :
                   produced' =
                       [op |-> op, args |-> args, raised |-> None, count |-> num_problems,
                        problem |-> Problem(<<"practice", topic, n>>, topic, "5",
                                            difficulty, data)]
        /\ UNCHANGED <<pathState, checked>>

HasProblem == produced.raised = None /\ produced.count > 0

CheckSolution(problem_id, student_answer, show_steps) ==
    /\ checked.op = "init"
    /\ checked' = [op |-> "check_solution", problem_id |-> problem_id,
                   student_answer |-> student_answer, show_steps |-> show_steps,
                   result |-> Feedback(student_answer, show_steps)]
    /\ UNCHANGED <<pathState, produced>>

\* What a caller passes: the id and the answer of the problem it holds, as
\* the tests do, or another id, and any text when it holds none.
ProblemIdInputs ==
    {<<"pid">>} \cup (IF HasProblem THEN {produced.problem.id} ELSE {<<"prob_1">>})

StudentAnswerInputs ==
    IF HasProblem THEN {produced.problem.answer} ELSE AnswerInputs

NextEngine ==
    \/ \E topic \in TopicInputs, difficulty_level \in DifficultyLevelInputs,
          student_level \in StudentLevelInputs :
          GenerateProblem(topic, difficulty_level, student_level)
    \/ \E topic \in TopicInputs \cap MathTopic, num_problems \in 0..MaxProblems,
          difficulty \in SeqRange(DifficultyLevel) :
          GeneratePracticeSet(topic, num_problems, difficulty)
    \/ \E problem_id \in ProblemIdInputs, student_answer \in StudentAnswerInputs,
          show_steps \in BOOLEAN :
          CheckSolution(problem_id, student_answer, show_steps)

InitEngine == Init /\ catalog = SampleContent

SpecEngine == InitEngine /\ [][NextEngine]_vars

(***************************************************************************)
(* Properties of the learning-path engine.                                 *)
(***************************************************************************)
Created == phase = "path"

\* Completed, by having completed a lesson.
Completed == Created /\ current_lesson = Len(lessons) /\ current_lesson > 0

\* The exact value of a float at the scale 2^e, and the float 1.0.
One == Hundredths[100]

ScaleOf(x, y, z) == MinInt(MinInt(x.e, y.e), MinInt(z.e, -MantBits))

BigLeq(a, b) == ~BigLess(b, a)

\* The known topics of a dict of literals, and the literal a topic has in it.
KnownKeys(d) == {d[i].k : i \in DOMAIN d} \cap MathTopic

Literal(d, key) == d[CHOOSE i \in DOMAIN d : d[i].k = key].v

\* C1: in every state reached by create_path and then update_path and
\* complete_lesson calls, 0 <= current_lesson <= len(lessons).
C1_CurrentLessonInRange ==
    Created => 0 <= current_lesson /\ current_lesson <= Len(lessons)

\* C2: complete_lesson with a lesson_id of path.lessons adds one to
\* current_lesson when performance >= 0.8 (0.8 included), leaves it unchanged
\* when performance is below, and records progress[lesson_id] = performance.
C2_CompleteLessonAdvances ==
    [][(call'.op = "complete_lesson" /\ call'.lesson_id \in SeqRange(lessons))
       => /\ current_lesson' =
                IF call'.performance >= 80 THEN current_lesson + 1 ELSE current_lesson
          /\ call'.lesson_id \in DictKeys(progress')
          /\ DictGet(progress', call'.lesson_id, DZero) = Hundredths[call'.performance]
          /\ lessons' = lessons]_vars

C2_Witness ==
    /\ call.op = "complete_lesson"
    /\ call.lesson_id \in SeqRange(lessons)
    /\ call.performance = 80
    /\ current_lesson = 1
    /\ calls = 1

\* C3: once the path is Completed (current_lesson = len(lessons), here after
\* at least one completed lesson), no update_path or complete_lesson call
\* brings it to a state in which get_next_lesson returns a lesson.
C3_CompletedStaysCompleted ==
    [][Completed => current_lesson' >= Len(lessons')]_vars

\* C4: get_next_lesson returns lessons[current_lesson] when current_lesson <
\* len(lessons), returns None exactly when current_lesson >= len(lessons), and
\* changes no field of the path.
C4_GetNextLesson ==
    [][call'.op = "get_next_lesson"
       => /\ pathVars' = pathVars
          /\ current_lesson < Len(lessons) => call'.result = lessons[current_lesson + 1]
          /\ call'.result = None <=> current_lesson >= Len(lessons)]_vars

C4_Witness ==
    /\ call.op = "get_next_lesson"
    /\ current_lesson = 1
    /\ Len(lessons) > 1
    /\ call.result = lessons[2]

\* C5: every topic of recommended_topics is in the topic list the catalog
\* gives for the path's grade.
C5_RecommendedInGrade ==
    Created =>
        SeqRange(recommended_topics)
            \subseteq SeqRange(get_topics_for_grade(ToString(grade_level)))

\* C6: with every assessment score and every performance score in [0, 1],
\* every value of mastery_scores is in [0, 1] after create_path and any
\* update_path calls.
C6_MasteryInUnitInterval ==
    \A i \in DOMAIN mastery_scores :
        LET v == mastery_scores[i].v
        IN  v.m = <<>> \/ v.e + MantBits <= 0 \/ v = One

C6_Witness ==
    /\ call.op = "update_path"
    /\ calls = 2
    /\ \E i \in DOMAIN mastery_scores :
          /\ mastery_scores[i].k \in KnownKeys(call.performance_data)
          /\ mastery_scores[i].v = One

\* C7: adaptive_adjustments is append-only: across every step the list
\* before is a prefix of the list after.
C7_AdjustmentsAppendOnly ==
    [][/\ Len(adaptive_adjustments') >= Len(adaptive_adjustments)
       /\ SubSeq(adaptive_adjustments', 1, Len(adaptive_adjustments))
              = adaptive_adjustments]_vars

C7_Witness ==
    /\ call.op = "update_path"
    /\ calls = 2
    /\ Len(adaptive_adjustments) >= 4

\* The float nearest to the exact value of 0.3 * old + 0.7 * observed.
ExactBlend(old, observed) ==
    LET e  == ScaleOf(old, observed, DZero)
        n  == BigAdd(BigMulLimb(Aligned(old, e), 3, 0),
                     BigMulLimb(Aligned(observed, e), 7, 0))
        qr == BigDivLimb(ShiftLeft(n, LitShift), 10, 0)
        q  == BigNorm(qr[1])
        q2 == BigAdd(BigAdd(q, q), IF qr[2] = 0 THEN <<>> ELSE <<1>>)
    IN  MkDouble(q2, e - (LitShift + 1))

\* |new - (0.3 * old + 0.7 * observed)| <= 2^-52, in exact arithmetic.
NearBlend(new, old, observed) ==
    LET e   == ScaleOf(new, old, observed)
        x   == BigMulLimb(Aligned(new, e), 10, 0)
        y   == BigAdd(BigMulLimb(Aligned(old, e), 3, 0),
                      BigMulLimb(Aligned(observed, e), 7, 0))
        tol == ShiftLeft(<<10>>, (1 - MantBits) - e)
    IN  BigLeq(x, BigAdd(y, tol)) /\ BigLeq(y, BigAdd(x, tol))

\* The frame of update_path on mastery_scores: the topics absent from
\* performance_data keep their mastery, the known topics of performance_data
\* are keys afterwards, and no other key appears.
MasteryFrame ==
    /\ DictKeys(mastery_scores') =
           DictKeys(mastery_scores) \cup KnownKeys(call'.performance_data)
    /\ \A t \in DictKeys(mastery_scores) \ KnownKeys(call'.performance_data) :
           DictGet(mastery_scores', t, DZero) = DictGet(mastery_scores, t, DZero)

C9_Classification ==
    call.op = "create_path" =>
        /\ SeqRange(call.strengths) \cap SeqRange(call.weaknesses) = {}
        /\ SeqRange(call.strengths) \cup SeqRange(call.weaknesses)
               \subseteq KnownKeys(call.assessment)
        /\ \A t \in KnownKeys(call.assessment) :
              /\ t \in SeqRange(call.strengths) <=> Literal(call.assessment, t) >= 80
              /\ t \in SeqRange(call.weaknesses) <=> Literal(call.assessment, t) < 60

C9_Witness ==
    /\ call.op = "create_path"
    /\ call.assessment = <<Entry("multiplication", 80)>>
    /\ call.strengths = <<"multiplication">>
    /\ call.weaknesses = <<>>

(***************************************************************************)
(* Properties of the problem engine.                                       *)
(***************************************************************************)
\* C10: for every problem generate_problem or generate_practice_set
\* produces, check_solution(problem.id, problem.answer) reports correct.
C10_OwnAnswerIsCorrect ==
    [][(/\ HasProblem
        /\ checked'.op = "check_solution"
        /\ produced' = produced
        /\ checked'.problem_id = produced.problem.id
        /\ checked'.student_answer = produced.problem.answer)
       => checked'.result.correct]_vars

\* The problem a call produced, when it produced one with the given form of
\* question.
Asks(form) == HasProblem /\ produced.problem.question.form = form

\* C11: the algebra answer solves the equation: b - a for x + a = b; for
\* a x = b the integer quotient when a divides b (written as an int or as
\* the float the division gives), else the fraction b/a in lowest terms.
C11_AlgebraAnswerSolves ==
    LET q == produced.problem.question
        g == gcd(q.b, q.a)
    IN  /\ Asks("x + a = b") => produced.problem.answer = IntStr(q.b - q.a)
        /\ Asks("a x = b") =>
              IF q.b % q.a = 0
              THEN produced.problem.answer \in
                       {IntStr(q.b \div q.a), IntegralFloatStr(q.b \div q.a)}
              ELSE produced.problem.answer = FractionStr(q.b \div g, q.a \div g)

\* The text between the first and the last character that is no whitespace.
Trimmed(text) ==
    LET ink == {i \in DOMAIN text : text[i] \notin Whitespace}
    IN  IF ink = {} THEN <<>>
        ELSE SubSeq(text, CHOOSE i \in ink : \A j \in ink : i <= j,
                          CHOOSE i \in ink : \A j \in ink : j <= i)

Unsigned(text) == IF text # <<>> /\ text[1] = "-" THEN Tail(text) ELSE text

AllDigits(text, from, to) ==
    from <= to /\ \A i \in from..to : text[i] \in SeqRange(Digits)

\* An optionally signed integer.
IsSignedInteger(text) == AllDigits(Unsigned(text), 1, Len(Unsigned(text)))

\* An optionally signed int/int fraction.
IsSignedFraction(text) ==
    LET body == Unsigned(text)
    IN  \E i \in DOMAIN body :
           body[i] = "/" /\ AllDigits(body, 1, i - 1) /\ AllDigits(body, i + 1, Len(body))

\* C12: whatever the problem_id, check_solution's result is a function of
\* the trimmed answer and show_steps: correct iff the trimmed answer is an
\* optionally signed integer or int/int fraction; hint and next_step are
\* present iff show_steps and not correct.
C12_CheckSolutionResult ==
    checked.op = "check_solution" =>
        LET text   == Trimmed(checked.student_answer)
            valid  == IsSignedInteger(text) \/ IsSignedFraction(text)
            result == checked.result
        IN  /\ result.correct = valid
            /\ ("hint" \in DOMAIN result) = (checked.show_steps /\ ~valid)
            /\ ("next_step" \in DOMAIN result) = (checked.show_steps /\ ~valid)

C12_Witness ==
    /\ checked.op = "check_solution"
    /\ checked.problem_id = <<"pid">>
    /\ checked.student_answer = Text("not-a-number")
    /\ checked.show_steps
    /\ ~checked.result.correct
    /\ "hint" \in DOMAIN checked.result

\* int(text) of a text of digits, and the two ints of a text "p/q".
DigitOf(char) == CHOOSE d \in 0..9 : Digits[d + 1] = char

RECURSIVE NatOf(_)
NatOf(text) ==
    IF text = <<>> THEN 0
    ELSE 10 * NatOf(SubSeq(text, 1, Len(text) - 1)) + DigitOf(text[Len(text)])

SlashAt(text) == CHOOSE i \in DOMAIN text : text[i] = "/"

NumeratorOf(text) == NatOf(SubSeq(text, 1, SlashAt(text) - 1))

DenominatorOf(text) == NatOf(SubSeq(text, SlashAt(text) + 1, Len(text)))

Coprime(p, q) == \A k \in 2..MinInt(p, q) : p % k # 0 \/ q % k # 0

\* The text is p/q in lowest terms (writing p/q again gives the text back)
\* and p/q = num/den.
ReducedFractionOf(text, num, den) ==
    /\ IsSignedFraction(text)
    /\ LET p == NumeratorOf(text)
           q == DenominatorOf(text)
       IN  /\ q > 0
           /\ Coprime(p, q)
           /\ p * den = num * q
           /\ FractionStr(p, q) = text

\* C13: every fractions answer p/q is in lowest terms and has the value
\* asked for: n/d in beginner mode, n1/d1 + n2/d2 otherwise.
C13_FractionAnswerReduced ==
    LET q == produced.problem.question
    IN  /\ Asks("simplify n/d") => ReducedFractionOf(produced.problem.answer, q.n, q.d)
        /\ Asks("n1/d1 + n2/d2") =>
              ReducedFractionOf(produced.problem.answer,
                                (q.n1 * q.d2) + (q.n2 * q.d1), q.d1 * q.d2)

\* 3/8 + 5/8 = 1/1: the sum had to be reduced.
C13_Witness ==
    /\ Asks("n1/d1 + n2/d2")
    /\ produced.problem.question = [form |-> "n1/d1 + n2/d2", n1 |-> 3, d1 |-> 8,
                                    n2 |-> 5, d2 |-> 8]
    /\ produced.problem.answer = <<"1", "/", "1">>

\* C14: a division problem's divisor is not zero, its dividend is a
\* multiple of the divisor, and the answer is the integer quotient, with
\* no fraction separator in it.
C14_DivisionIsExact ==
    Asks("a / b") =>
        LET q      == produced.problem.question
            answer == produced.problem.answer
        IN  /\ q.b # 0
            /\ q.a % q.b = 0
            /\ IsSignedInteger(answer)
            /\ "/" \notin SeqRange(answer)
            /\ NatOf(answer) * q.b = q.a

\* 400 / 20 = 20, of the hardest tier.
C14_Witness ==
    /\ Asks("a / b")
    /\ produced.problem.difficulty = "expert"
    /\ produced.problem.question.a = 400
    /\ produced.problem.question.b = 20
    /\ produced.problem.answer = <<"2", "0">>

\* C15: a subtraction problem asks a - b with a >= b, and its answer is
\* a - b, never negative.
C15_SubtractionNotNegative ==
    Asks("a - b") =>
        LET q      == produced.problem.question
            answer == produced.problem.answer
        IN  /\ q.a >= q.b
            /\ answer # <<>> /\ answer[1] # "-"
            /\ IsSignedInteger(answer)
            /\ NatOf(answer) = q.a - q.b

\* The draws 5 and 10 of the beginner tier, asked as 10 - 5.
C15_Witness ==
    /\ Asks("a - b")
    /\ produced.problem.difficulty = "beginner"
    /\ produced.problem.question.a = 10
    /\ produced.problem.question.b = 5
    /\ produced.problem.answer = <<"5">>

\* generate_problem was called with a topic of the taxonomy, a difficulty
\* level in 1..4 and a valid grade.
ValidArguments ==
    /\ produced.op = "generate_problem"
    /\ produced.args.topic \in MathTopic
    /\ produced.args.difficulty_level \in 1..4
    /\ ToString(produced.args.student_level) \in GradeLevel

\* C16: generate_problem with valid arguments returns a problem with a
\* non-empty solution_steps list and at least one hint.
C16_StepsAndHints ==
    ValidArguments =>
        /\ produced.raised = None
        /\ "problem" \in DOMAIN produced
        /\ Len(produced.problem.solution_steps) > 0
        /\ Len(produced.problem.hints) >= 1

\* A topic without a synthesizer of its own, at the hardest level, grade 12.
C16_Witness ==
    /\ ValidArguments
    /\ produced.args = [topic |-> "geometry", difficulty_level |-> 4, student_level |-> 12]
    /\ Len(produced.problem.solution_steps) = 4
    /\ Len(produced.problem.hints) = 3

\* C17: generate_problem raises, and returns no problem, whenever the topic
\* is not in the taxonomy, the difficulty level is outside 1..4 or the
\* grade is not a grade level.
C17_InvalidArgumentsRaise ==
    (produced.op = "generate_problem" /\ ~ValidArguments) =>
        /\ produced.raised # None
        /\ "problem" \notin DOMAIN produced

\* The topics with a synthesizer of their own.
Dedicated ==
    {"basic_addition", "basic_subtraction", "multiplication", "division",
     "fractions", "algebra_1"}

\* The operand range of an addition problem, by tier.
TierRange(difficulty) ==
    CASE difficulty = "beginner"     -> 1..10
      [] difficulty = "intermediate" -> 10..50
      [] difficulty = "advanced"     -> 50..100
      [] difficulty = "expert"       -> 100..1000

\* C18: for a valid topic without a synthesizer of its own, generate_problem
\* returns without error an addition problem, answer a + b, both operands
\* in the tier's range, carrying the requested topic.
C18_DefaultIsAddition ==
    (ValidArguments /\ produced.args.topic \notin Dedicated) =>
        /\ produced.raised = None
        /\ "problem" \in DOMAIN produced
        /\ LET problem == produced.problem
               q       == problem.question
           IN  /\ problem.topic = produced.args.topic
               /\ problem.difficulty = DifficultyLevel[produced.args.difficulty_level]
               /\ q.form = "a + b"
               /\ q.a \in TierRange(problem.difficulty)
               /\ q.b \in TierRange(problem.difficulty)
               /\ IsSignedInteger(problem.answer)
               /\ NatOf(problem.answer) = q.a + q.b

\* The call of the tests: geometry at level 2 for grade 3, here 10 + 50.
C18_Witness ==
    /\ ValidArguments
    /\ produced.args = [topic |-> "geometry", difficulty_level |-> 2, student_level |-> 3]
    /\ produced.problem.topic = "geometry"
    /\ produced.problem.question = [form |-> "a + b", a |-> 10, b |-> 50]
    /\ produced.problem.answer = <<"6", "0">>

(***************************************************************************)
(* Further properties of the learning path.                                *)
(***************************************************************************)
\* The entries of a dict whose key is a topic of the taxonomy.
KnownOnly(d) == SelectSeq(d, LAMBDA en : en.k \in MathTopic)

\* The fields create_path gives a path for the grade and the assessment.
CreatedWith(grade, assessment) ==
    LET results  == Floats(assessment)
        analysis == _analyze_assessment(results)
        g        == ToString(grade)
        topics   == get_topics_for_grade(g)
    IN  [lessons |-> _generate_lesson_sequence(catalog, g, topics, analysis[1],
                                               analysis[2]),
         mastery_scores |->
             [i \in DOMAIN topics |->
                 [k |-> topics[i], v |-> DictGet(results, topics[i], DZero)]],
         recommended_topics |-> Take(analysis[2], 3)]

\* The fields update_path gives the current path for the performance data.
UpdatedWith(performance) ==
    LET mastery == UpdateMastery(mastery_scores, Floats(performance))
        st      == AddRemedial(catalog, mastery, current_lesson + 1,
                               Take(StrugglingTopics(mastery), 2),
                               [lessons |-> lessons, adjustments |-> adaptive_adjustments])
    IN  [lessons |-> st.lessons,
         mastery_scores |-> mastery,
         adaptive_adjustments |->
             IF Excelling(mastery) THEN Log(st.adjustments, AcceleratedEntry)
             ELSE st.adjustments]

\* C19: a key that is no topic, in the assessment of create_path or in the
\* performance data of update_path, does not make the call fail and does
\* not change its outcome: the path is the one the call gives with those
\* keys removed.
C19_UnknownKeysIgnored ==
    [][/\ call'.op = "create_path" =>
            LET path == CreatedWith(grade_level', KnownOnly(call'.assessment))
            IN  /\ lessons' = path.lessons
                /\ mastery_scores' = path.mastery_scores
                /\ recommended_topics' = path.recommended_topics
                /\ current_lesson' = 0
                /\ progress' = <<>>
                /\ adaptive_adjustments' = <<>>
       /\ call'.op = "update_path" =>
            LET path == UpdatedWith(KnownOnly(call'.performance_data))
            IN  /\ lessons' = path.lessons
                /\ mastery_scores' = path.mastery_scores
                /\ adaptive_adjustments' = path.adaptive_adjustments
                /\ UNCHANGED <<current_lesson, progress, recommended_topics>>]_vars

\* update_path with a key that is no topic before one that is: the topic's
\* score was blended and the other key left no trace.
C19_Witness ==
    /\ call.op = "update_path"
    /\ call.performance_data = <<Entry("not_a_topic", 10), Entry("multiplication", 80)>>
    /\ "not_a_topic" \notin DictKeys(mastery_scores)
    /\ "multiplication" \in DictKeys(mastery_scores)
    /\ DLess(DZero, DictGet(mastery_scores, "multiplication", DZero))

\* The topics of the taxonomy scored below 0.6, in the order of the
\* assessment (scores in hundredths).
WeakKeys(assessment) ==
    LET weak == SelectSeq(assessment, LAMBDA en : en.k \in MathTopic /\ en.v < 60)
    IN  [i \in DOMAIN weak |-> weak[i].k]

\* C20: recommended_topics of a created path is the first three weakness
\* topics in assessment order, all of them when there are fewer: never
\* more than three, never a topic scored 0.6 or more.
C20_RecommendedTopics ==
    call.op = "create_path" =>
        LET weak == WeakKeys(call.assessment)
        IN  /\ Len(recommended_topics) = MinInt(3, Len(weak))
            /\ \A i \in DOMAIN recommended_topics : recommended_topics[i] = weak[i]
            /\ Len(recommended_topics) <= 3
            /\ \A i \in DOMAIN recommended_topics :
                  \A j \in DOMAIN call.assessment :
                     call.assessment[j].k = recommended_topics[i]
                        => call.assessment[j].v < 60

\* Four weaknesses, of which the first three are recommended.
C20_Witness ==
    /\ call.op = "create_path"
    /\ call.assessment = LongAssessment
    /\ Len(call.weaknesses) = 4
    /\ recommended_topics = <<"multiplication", "fractions", "counting">>

\* C21: complete_lesson with a lesson_id that is not in path.lessons changes
\* nothing of the path, whatever the performance.
C21_UnknownLessonIsNoOp ==
    [][(call'.op = "complete_lesson" /\ call'.lesson_id \notin SeqRange(lessons))
       => UNCHANGED pathVars]_vars

\* Such a call with a performance above the threshold, on a path that has
\* a lesson to give.
C21_Witness ==
    /\ call.op = "complete_lesson"
    /\ call.lesson_id = "no_such_lesson"
    /\ call.performance = 100
    /\ current_lesson = 0
    /\ lessons # <<>>
    /\ progress = <<>>

(***************************************************************************)
(* Properties of path ids.                                                 *)
(***************************************************************************)
\* C22: any two create_path calls on one generator return paths with
\* distinct ids, for different students and for the same student alike.
C22_DistinctIds ==
    \A i, j \in DOMAIN created : i # j => created[i].id # created[j].id

(***************************************************************************)
(* Properties of the curriculum.                                           *)
(***************************************************************************)
\* The lesson is one get_lessons_for_topic was asked for.
AskedFor(lesson) ==
    /\ lesson.topic = call.topic
    /\ call.grade = NoGrade \/ lesson.grade_level = call.grade

\* C23: get_lessons_for_topic(topic, grade) returns exactly the lessons of
\* the store with that topic and, when a grade is given, that grade: none
\* extra, none missing or repeated, and the empty list when none match.
C23_LessonsForTopic ==
    call.op = "get_lessons_for_topic" =>
        LET result  == call.result
            matches == {i \in DOMAIN catalog : AskedFor(catalog[i])}
        IN  /\ \A j \in DOMAIN result :
                  result[j] \in SeqRange(catalog) /\ AskedFor(result[j])
            /\ \A i \in matches :
                  Cardinality({j \in DOMAIN result : result[j] = catalog[i]}) = 1
            /\ Len(result) = Cardinality(matches)
            /\ (matches = {}) => (result = <<>>)

\* The two grade 3 lessons on multiplication, without the one of grade 4.
C23_Witness ==
    /\ call.op = "get_lessons_for_topic"
    /\ catalog = ExtendedContent
    /\ call.topic = "multiplication"
    /\ call.grade = "3"
    /\ Ids(call.result) = <<"lesson_mult_3_1", "lesson_mult_3_2">>

\* C24: whenever complete_lesson advances current_lesson from i to i + 1,
\* the lesson completed is lessons[i], the lesson the path was standing at.
C24_AdvancesOnlyCurrent ==
    [][(call'.op = "complete_lesson" /\ current_lesson' = current_lesson + 1)
          => /\ current_lesson < Len(lessons)
             /\ call'.lesson_id = lessons[current_lesson + 1]]_vars

\* Number of occurrences of x in the sequence s.
Count(s, x) == Cardinality({i \in DOMAIN s : s[i] = x})

\* The entries of `adjustments` that record a remedial lesson.
RemedialEntries(adjustments) ==
    SelectSeq(adjustments, LAMBDA entry : entry.action = "added_remedial")

\* Positions in mastery_scores of the topics below the advancement threshold.
Struggling(mastery) ==
    {i \in DOMAIN mastery : DLess(mastery[i].v, min_accuracy_for_advancement)}

\* The first two of them.
FirstTwo(positions) ==
    {i \in positions : Cardinality({j \in positions : j < i}) < 2}

HasLesson(topic) == \E i \in DOMAIN catalog : catalog[i].topic = topic

\* C25: update_path serves the first two struggling topics that have a
\* lesson in the catalog, in the order of mastery_scores after blending: one
\* lesson of the topic inserted and one added_remedial entry appended for
\* each, and nothing for any other topic.
C25_RemedialForFirstTwo ==
    [][call'.op = "update_path" =>
        LET served == {i \in FirstTwo(Struggling(mastery_scores')) :
                           HasLesson(mastery_scores'[i].k)}
            before == RemedialEntries(adaptive_adjustments)
            after  == RemedialEntries(adaptive_adjustments')
            new    == SubSeq(after, Len(before) + 1, Len(after))
        IN  /\ Cardinality(served) <= 2
            /\ Len(lessons') = Len(lessons) + Cardinality(served)
            /\ \A id \in SeqRange(lessons') : Count(lessons', id) >= Count(lessons, id)
            /\ \A i \in served :
                  \E j \in DOMAIN catalog :
                     /\ catalog[j].topic = mastery_scores'[i].k
                     /\ Count(lessons', catalog[j].id) > Count(lessons, catalog[j].id)
            /\ SubSeq(after, 1, Len(before)) = before
            /\ Len(new) = Cardinality(served)
            /\ \A n \in DOMAIN new :
                  \E i \in served :
                     /\ new[n].topic = mastery_scores'[i].k
                     /\ Cardinality({j \in served : j < i}) = n - 1]_vars

\* One update of a grade 3 path in which multiplication and division are
\* served and algebra_1, struggling too and with lessons in the catalog, is not.
C25_Witness ==
    /\ call.op = "update_path"
    /\ calls = 1
    /\ \E i \in Struggling(mastery_scores) :
          /\ mastery_scores[i].k = "algebra_1"
          /\ HasLesson("algebra_1")
          /\ i \notin FirstTwo(Struggling(mastery_scores))
    /\ LET entries == RemedialEntries(adaptive_adjustments)
       IN  /\ Len(entries) = 2
           /\ entries[1].topic = "multiplication"
           /\ entries[2].topic = "division"
    /\ Len(lessons) = 4

\* The entries of `adjustments` that record an acceleration.
AcceleratedEntries(adjustments) ==
    SelectSeq(adjustments, LAMBDA entry : entry.action = "accelerated_path")

\* Strictly more than half of the topics of `mastery` are above 0.95.
MostlyMastered(mastery) ==
    2 * Cardinality({i \in DOMAIN mastery : DLess(ExcellingScore, mastery[i].v)})
        > Len(mastery)

\* C26: update_path appends one accelerated_path entry, as the last entry,
\* exactly when strictly more than half of the topics of mastery_scores are
\* above 0.95 after blending, and none otherwise; current_lesson stays and
\* lessons changes only by the remedial lessons recorded.
C26_AcceleratedEntry ==
    [][call'.op = "update_path" =>
        LET before == Len(AcceleratedEntries(adaptive_adjustments))
            after  == Len(AcceleratedEntries(adaptive_adjustments'))
            last   == adaptive_adjustments'[Len(adaptive_adjustments')]
        IN  /\ IF MostlyMastered(mastery_scores')
               THEN after = before + 1 /\ last.action = "accelerated_path"
               ELSE after = before
            /\ current_lesson' = current_lesson
            /\ Len(lessons') - Len(lessons) =
                  Len(RemedialEntries(adaptive_adjustments'))
                     - Len(RemedialEntries(adaptive_adjustments))]_vars

\* A grade 9 path with both topics at 1.0, updated once.
C26_Witness ==
    /\ call.op = "update_path"
    /\ calls = 1
    /\ grade_level = 9
    /\ MostlyMastered(mastery_scores)
    /\ Len(adaptive_adjustments) = 1
    /\ adaptive_adjustments[1].action = "accelerated_path"

\* Positions in the catalog of the lessons of `topic` for the path's grade.
Matching(topic) ==
    {i \in DOMAIN catalog : /\ catalog[i].topic = topic
                            /\ catalog[i].grade_level = ToString(grade_level)}

\* Number of lessons of `topic` that come before lesson i when the lessons
\* are ordered by duration, lessons of equal duration in catalog order.
Rank(topic, i) ==
    Cardinality({j \in Matching(topic) :
        \/ catalog[j].duration_minutes < catalog[i].duration_minutes
        \/ catalog[j].duration_minutes = catalog[i].duration_minutes /\ j < i})

ShortestTwo(topic) == {i \in Matching(topic) : Rank(topic, i) < 2}

AdvancedOf(topic) == {i \in Matching(topic) : catalog[i].advanced}

First(positions) == CHOOSE i \in positions : \A j \in positions : i <= j

\* C27: the lesson list of create_path is, in this order: for each weakness
\* in turn its two shortest lessons, shortest first; for each topic of the
\* grade that is neither weakness nor strength its first lesson; for each
\* strength its first advanced lesson; and nothing else, a topic without
\* such a lesson contributing nothing.
C27_LessonSequence ==
    call.op = "create_path" =>
        LET W       == call.weaknesses
            S       == call.strengths
            T       == topics_by_grade[ToString(grade_level)]
            weak    == {p \in (DOMAIN W) \X (DOMAIN catalog) : p[2] \in ShortestTwo(W[p[1]])}
            regular == {k \in DOMAIN T : /\ T[k] \notin SeqRange(W)
                                         /\ T[k] \notin SeqRange(S)
                                         /\ Matching(T[k]) # {}}
            strong  == {k \in DOMAIN S : AdvancedOf(S[k]) # {}}
            nW      == Cardinality(weak)
            nR      == Cardinality(regular)
        IN  /\ Len(lessons) = nW + nR + Cardinality(strong)
            /\ \A p \in weak :
                  lessons[Cardinality({q \in weak : q[1] < p[1]})
                             + Rank(W[p[1]], p[2]) + 1] = catalog[p[2]].id
            /\ \A k \in regular :
                  lessons[nW + Cardinality({j \in regular : j < k}) + 1]
                      = catalog[First(Matching(T[k]))].id
            /\ \A k \in strong :
                  lessons[nW + nR + Cardinality({j \in strong : j < k}) + 1]
                      = catalog[First(AdvancedOf(S[k]))].id

\* Grade 3 with weaknesses multiplication and division and strength
\* fractions: two of the three division lessons, then geometry, then the
\* advanced fractions lesson.
C27_Witness ==
    /\ call.op = "create_path"
    /\ catalog = FullContent
    /\ call.weaknesses = <<"multiplication", "division">>
    /\ call.strengths = <<"fractions">>
    /\ lessons = <<"lesson_mult_3_2", "lesson_mult_3_1", "lesson_div_3_2",
                   "lesson_div_3_1", "lesson_geo_3_1", "lesson_frac_3_adv">>

\* get_next_lesson returns None.
NoNextLesson == NextLessonOf(lessons, current_lesson) = None

Driving == phase = "driving"

\* C28: from a path whose position is within its lessons, a caller who keeps
\* completing the lesson get_next_lesson returns, with a performance at or
\* above the threshold and without update_path, reaches the state in which
\* get_next_lesson returns None, after exactly len(lessons) - current_lesson
\* completions: not before, and the list of lessons does not change.
C28_DriveCompletes ==
    /\ [](Driving /\ call.completions < call.remaining => ~NoNextLesson)
    /\ [][Driving => lessons' = lessons /\ call'.remaining = call.remaining]_vars
    /\ (Driving /\ call.completions = 0)
          ~> (Driving /\ NoNextLesson /\ call.completions = call.remaining)

\* A path of at least three remaining lessons, driven to its end.
C28_Witness ==
    /\ Driving
    /\ NoNextLesson
    /\ call.remaining >= 3
    /\ call.completions = call.remaining
    /\ current_lesson = Len(lessons)

\* C29: update_path changes neither current_lesson nor progress, nor the
\* lessons up to and including the current one; the lessons it adds stand
\* together right after the current lesson and those that followed it follow
\* in the same order; a lesson get_next_lesson returned before is the one it
\* returns afterwards.
C29_UpdateKeepsPosition ==
    [][call'.op = "update_path" =>
        LET kept  == MinInt(current_lesson + 1, Len(lessons))
            added == Len(lessons') - Len(lessons)
        IN  /\ current_lesson' = current_lesson
            /\ progress' = progress
            /\ added >= 0
            /\ SubSeq(lessons', 1, kept) = SubSeq(lessons, 1, kept)
            /\ SubSeq(lessons', kept + added + 1, Len(lessons'))
                  = SubSeq(lessons, kept + 1, Len(lessons))
            /\ NextLessonOf(lessons, current_lesson) # None
                  => NextLessonOf(lessons', current_lesson')
                        = NextLessonOf(lessons, current_lesson)]_vars

\* An update, after one completed lesson, that put two remedial lessons
\* between the current lesson and the one that followed it.
C29_Witness ==
    /\ call.op = "update_path"
    /\ calls = 2
    /\ current_lesson = 1
    /\ catalog = FullContent
    /\ Len(RemedialEntries(adaptive_adjustments)) = 2
    /\ Len(lessons) >= 5
    /\ DictKeys(progress) = {lessons[1]}
    /\ lessons[2] = "lesson_mult_3_1"
    /\ lessons[5] = "lesson_div_3_1"

CatalogIds == {catalog[i].id : i \in DOMAIN catalog}

\* C30: in every state, every id in path.lessons is the id of a lesson of
\* the catalog and every key of path.progress occurs in path.lessons.
C30_NoDanglingReferences ==
    /\ SeqRange(lessons) \subseteq CatalogIds
    /\ DictKeys(progress) \subseteq SeqRange(lessons)

\* A path with a remedial lesson inserted by update_path, then a lesson
\* completed.
C30_Witness ==
    /\ call.op = "complete_lesson"
    /\ call.lesson_id \in SeqRange(lessons)
    /\ Len(RemedialEntries(adaptive_adjustments)) >= 1
    /\ Len(lessons) >= 3
    /\ DictKeys(progress) = {call.lesson_id}
====
